---------------------------- MODULE Spec2Model ----------------------------
(***************************************************************************)
(* The event-driven view controller of systemd-manager-tui:                *)
(*   src/src/terminal/app.rs             App (dispatch loop, key poller)   *)
(*   src/src/terminal/components/log.rs  ServiceLog (Log view, workers)    *)
(* The List, Filter and Details components are not part of the sources     *)
(* at hand; the little of them the controller needs is modelled from the   *)
(* specification and marked so in the model map.                           *)
(***************************************************************************)
EXTENDS Integers, Sequences, FiniteSets, TLC

VARIABLES
    running,            \* App.running
    status,             \* App.status
    pc,                 \* position of the controller thread in App::run
    queue,              \* the mpsc channel event_tx -> event_rx
    scroll,             \* ServiceLog.scroll (u16)
    log_paragraph,      \* ServiceLog.log_paragraph (Option)
    log_block,          \* ServiceLog.log_block (Option)
    border_color,       \* ServiceLog.border_color
    service_name,       \* ServiceLog.service_name
    auto_refresh,       \* ServiceLog.auto_refresh (Arc<Mutex<bool>>), the value
    poisoned,           \* ServiceLog.auto_refresh, the mutex's poison flag
    pw,                 \* the threads spawned by auto_refresh_thread
    fetches,            \* the threads spawned by fetch_log_and_dispatch
    poller,             \* the thread spawned by spawn_key_event_listener
    panicked,           \* the kinds of thread that ended in a panic
    units,              \* the services the backend lists
    filtered,           \* TableServices: the filtered service list
    selected_index,     \* TableServices: the selection index
    ignore_key_events,  \* TableServices: key suppression
    details_fetches,    \* ServiceDetails: one-shot fetches in flight
    rec,                \* history: whether tphase and wclass are being recorded
    tphase,             \* history: the `a` toggles since the flag was last set otherwise
    wclass              \* history: the periodic threads alive, by what they slept through

appVars     == <<running, status, pc>>
logVars     == <<scroll, log_paragraph, log_block, border_color, service_name, auto_refresh>>
listVars    == <<units, filtered, selected_index, ignore_key_events>>
detailsVars == <<details_fetches>>
threadVars  == <<pw, fetches, poller, panicked, poisoned>>
histVars    == <<rec, tphase, wclass>>
vars        == <<running, status, pc, queue, scroll, log_paragraph, log_block,
                 border_color, service_name, auto_refresh, poisoned, pw, fetches,
                 poller, panicked, units, filtered, selected_index, ignore_key_events,
                 details_fetches, rec, tphase, wclass>>

----------------------------------------------------------------------------
(* Bounds of the model *)

\* events a producer thread may leave waiting in the channel
MaxQueue == 2
\* periodic refresh threads alive at once
MaxWorkers == 2
\* one-shot fetch threads in flight at once
MaxFetch == 1
\* SpecRev: the longest backend text drawn
MaxTextLen == 3
\* the scroll offset the enumerated Down presses reach
MaxScroll == 1
\* SpecScroll: how far from 0 and from u16::MAX the scroll offset is taken
ScrollSpan == 25

(* Program constants *)

\* u16::MAX, the largest value of ServiceLog.scroll
U16Max == 65535
\* the step of PageUp and PageDown
PageStep == 10

----------------------------------------------------------------------------
(* Values *)

Views == {"List", "Log", "Details"}

None == [some |-> FALSE]
Some(x) == [some |-> TRUE, val |-> x]

\* the services the backend lists, in its order
AllServices == <<"sshd", "cron">>
Services == {AllServices[i] : i \in 1..Len(AllServices)}

\* filter texts: "" matches every service, "zz" matches none
FilterTexts == {"", "zz"}

\* log texts the backend returns, as sequences of characters ("NL" is \n)
BackendLogs == {<<"a", "NL", "b">>}

\* backend error strings
ErrorMsgs == {"org.freedesktop.systemd1.NoSuchUnit"}

Key(code, mods) == [code |-> code, mods |-> mods]

\* the key presses enumerated in Spec, by the view on screen when the user
\* presses: the keys of the Log view and those that lead to it
PollKeys(view) ==
    CASE view = "List" -> {Key("Right", "NONE")}
      [] view = "Log" ->
            {Key("Right", "NONE"), Key("q", "NONE"), Key("a", "NONE"), Key("Down", "NONE")}
      [] view = "Details" -> {Key("Right", "NONE"), Key("q", "NONE")}

\* the key presses enumerated in SpecQuit: navigation and Ctrl+C
QuitKeys(view) ==
    CASE view = "List" -> {Key("Right", "NONE"), Key("c", "CONTROL")}
      [] view = "Log" -> {Key("q", "NONE"), Key("Down", "NONE"), Key("c", "CONTROL")}
      [] view = "Details" -> {Key("Right", "NONE"), Key("q", "NONE"), Key("c", "CONTROL")}

\* the key presses enumerated in SpecFilter: a tour of the views and the filter
FilterKeys(view) ==
    CASE view = "List" -> {Key("Right", "NONE"), Key("x", "NONE")}
      [] view = "Log" -> {Key("q", "NONE")}
      [] view = "Details" -> {Key("Right", "NONE")}

\* the key presses enumerated in SpecHist: the toggle of the Log view
HistKeys(view) ==
    CASE view = "List" -> {Key("Right", "NONE")}
      [] view = "Log" -> {Key("q", "NONE"), Key("a", "NONE")}
      [] view = "Details" -> {Key("Right", "NONE")}

\* the key presses enumerated in SpecSel: the selection in the List and the
\* way to the Log view and back
SelKeys(view) ==
    CASE view = "List" -> {Key("Right", "NONE"), Key("Down", "NONE")}
      [] view = "Log" -> {Key("q", "NONE")}
      [] view = "Details" -> {Key("Right", "NONE")}

\* the key presses enumerated in SpecNav: every key of the Log view that
\* navigates, the toggle, a scroll key and a key the Log view ignores
NavKeys(view) ==
    CASE view = "List" -> {Key("Right", "NONE")}
      [] view = "Log" ->
            {Key("Left", "NONE"), Key("Right", "NONE"), Key("q", "NONE"),
             Key("a", "NONE"), Key("Down", "NONE"), Key("x", "NONE")}
      [] view = "Details" -> {Key("Right", "NONE")}

\* the key presses enumerated in SpecLive: the way to the Log view and the
\* toggle, for a user who stays in the Log view
LiveKeys(view) ==
    CASE view = "List" -> {Key("Right", "NONE")}
      [] view = "Log" -> {Key("a", "NONE")}
      [] view = "Details" -> {Key("Right", "NONE")}

\* the key presses enumerated in SpecScroll
ScrollKeys ==
    {Key("Up", "NONE"), Key("Down", "NONE"),
     Key("PageUp", "NONE"), Key("PageDown", "NONE")}

KeyEv(k)          == [kind |-> "Key", key |-> k]
Act(a)            == [kind |-> a]
UpdatelogEv(n, l) == [kind |-> "Updatelog", name |-> n, log |-> l]
FilterEv(t)       == [kind |-> "Filter", input |-> t]
IgnoreEv(b)       == [kind |-> "UpdateIgnoreListKeys", flag |-> b]
ErrorEv(m)        == [kind |-> "Error", msg |-> m]

\* what a periodic thread has slept through since it last woke:
\*   marked: an `a` press that set the flag true, and no other setting to true since
\*   doomed: a navigation away from the Log view (q, Left, Right)
Class == [marked : BOOLEAN, doomed : BOOLEAN]

Fresh == [marked |-> FALSE, doomed |-> FALSE]

NumKeys(q) == Cardinality({i \in 1..Len(q) : q[i].kind = "Key"})

NumDown(q) ==
    Cardinality({i \in 1..Len(q) : q[i].kind = "Key" /\ q[i].key.code = "Down"})

----------------------------------------------------------------------------
(* ServiceLog: pure helpers *)

\* u16::saturating_sub
SaturatingSub(s, n) == IF s >= n THEN s - n ELSE 0

\* `self.scroll += n` on a u16: the sum when it fits; past u16::MAX a build
\* with overflow checks panics and a build without them wraps
ScrollAddOutcomes(s, n) ==
    IF s + n <= U16Max
    THEN {[panic |-> FALSE, scroll |-> s + n]}
    ELSE {[panic |-> TRUE, scroll |-> s],
          [panic |-> FALSE, scroll |-> (s + n) % (U16Max + 1)]}

\* str::split_inclusive('\n'): the pieces of s, each ending with its "NL"
RECURSIVE SplitInclusive(_, _)
SplitInclusive(s, cur) ==
    IF s = <<>>
    THEN IF cur = <<>> THEN <<>> ELSE <<cur>>
    ELSE IF Head(s) = "NL"
         THEN <<Append(cur, "NL")>> \o SplitInclusive(Tail(s), <<>>)
         ELSE SplitInclusive(Tail(s), Append(cur, Head(s)))

\* what str::lines does to one piece: strip a final "NL", then a final "CR"
StripLineEnding(l) ==
    IF l # <<>> /\ l[Len(l)] = "NL"
    THEN LET m == SubSeq(l, 1, Len(l) - 1)
         IN  IF m # <<>> /\ m[Len(m)] = "CR" THEN SubSeq(m, 1, Len(m) - 1) ELSE m
    ELSE l

\* str::lines
Lines(s) ==
    LET p == SplitInclusive(s, <<>>)
    IN  [i \in 1..Len(p) |-> StripLineEnding(p[i])]

\* Iterator::rev
Rev(ls) == [i \in 1..Len(ls) |-> ls[Len(ls) + 1 - i]]

\* [&str]::join("\n")
RECURSIVE JoinNL(_)
JoinNL(ls) ==
    IF ls = <<>> THEN <<>>
    ELSE IF Len(ls) = 1 THEN ls[1]
    ELSE ls[1] \o <<"NL">> \o JoinNL(Tail(ls))

\* reversed_log, were it to join the lines in the order it found them
reversed_log_norev(log) == JoinNL(Lines(log))

\* ServiceLog::reversed_log
reversed_log(log) == JoinNL(Rev(Lines(log)))

\* BorderColor of set_auto_refresh
ColorOf(value) == IF value THEN "Orange" ELSE "White"

\* the Block built in set_auto_refresh and in update
MakeBlock(name, color) == Some([title |-> name, color |-> color])

\* ServiceLog::render draws the loading placeholder
ShowsLoading == ~log_paragraph.some \/ ~log_block.some

----------------------------------------------------------------------------
(* ServiceLog: the methods, as the changes they make to the Log view's state *)

\* ServiceLog::set_auto_refresh
set_auto_refresh(value) ==
    /\ border_color' = ColorOf(value)
    /\ log_block' = MakeBlock(service_name, ColorOf(value))
    /\ auto_refresh' = value

\* ServiceLog::toogle_auto_refresh
toogle_auto_refresh == set_auto_refresh(~auto_refresh)

\* reset, were it to clear the flag alone
reset_flagonly ==
    /\ set_auto_refresh(FALSE)
    /\ UNCHANGED <<scroll, log_paragraph>>

\* ServiceLog::reset
reset ==
    /\ set_auto_refresh(FALSE)
    /\ scroll' = 0
    /\ log_paragraph' = None

\* ServiceLog::auto_refresh_thread: thread::spawn
auto_refresh_thread == pw' = pw + 1

\* start_auto_refresh, were it to start the thread with the flag cleared
start_auto_refresh_off ==
    /\ set_auto_refresh(FALSE)
    /\ auto_refresh_thread

\* ServiceLog::start_auto_refresh
start_auto_refresh ==
    /\ set_auto_refresh(TRUE)
    /\ auto_refresh_thread

\* ServiceLog::update
update(name, log) ==
    /\ service_name' = name
    /\ log_paragraph' = Some(reversed_log(log))
    /\ log_block' = MakeBlock(name, border_color)

\* ServiceLog::fetch_log_and_dispatch: thread::spawn
fetch_log_and_dispatch(service) ==
    fetches' = [fetches EXCEPT ![service] = @ + 1]

\* the one-shot fetch threads in flight
RECURSIVE SumFetches(_)
SumFetches(i) == IF i = 0 THEN 0 ELSE fetches[AllServices[i]] + SumFetches(i - 1)
NumFetches == SumFetches(Len(AllServices))

\* ServiceLog::on_key_event, called with the channel as the controller left
\* it (q) and the outcome of the scroll addition (o)
ServiceLog_on_key_event(key, q, o) ==
    CASE key.code \in {"Right", "Left"} ->
            /\ reset
            /\ queue' = Append(q, Act("GoDetails"))
            /\ UNCHANGED <<service_name>>
      [] key.code = "Up" ->
            /\ scroll' = SaturatingSub(scroll, 1)
            /\ queue' = q
            /\ UNCHANGED <<log_paragraph, log_block, border_color, service_name, auto_refresh>>
      [] key.code = "Down" ->
            /\ scroll' = o.scroll
            /\ queue' = q
            /\ UNCHANGED <<log_paragraph, log_block, border_color, service_name, auto_refresh>>
      [] key.code = "PageUp" ->
            /\ scroll' = SaturatingSub(scroll, PageStep)
            /\ queue' = q
            /\ UNCHANGED <<log_paragraph, log_block, border_color, service_name, auto_refresh>>
      [] key.code = "PageDown" ->
            /\ scroll' = o.scroll
            /\ queue' = q
            /\ UNCHANGED <<log_paragraph, log_block, border_color, service_name, auto_refresh>>
      [] key.code = "a" ->
            /\ toogle_auto_refresh
            /\ queue' = q
            /\ UNCHANGED <<scroll, log_paragraph, service_name>>
      [] key.code = "q" ->
            /\ reset
            /\ queue' = Append(q, Act("GoList"))
            /\ UNCHANGED <<service_name>>
      [] OTHER ->
            /\ queue' = q
            /\ UNCHANGED logVars

\* the outcomes of the addition ServiceLog::on_key_event makes for `key`
ScrollOutcomes(key) ==
    CASE key.code = "Down" -> ScrollAddOutcomes(scroll, 1)
      [] key.code = "PageDown" -> ScrollAddOutcomes(scroll, PageStep)
      [] OTHER -> {[panic |-> FALSE, scroll |-> scroll]}

----------------------------------------------------------------------------
(* History variables: they record what happened and decide nothing *)

\* every thread alive takes the class F gives its own
Reclass(F(_)) ==
    [c \in Class |->
        (IF F([marked |-> TRUE,  doomed |-> TRUE])  = c THEN wclass[[marked |-> TRUE,  doomed |-> TRUE]]  ELSE 0)
      + (IF F([marked |-> TRUE,  doomed |-> FALSE]) = c THEN wclass[[marked |-> TRUE,  doomed |-> FALSE]] ELSE 0)
      + (IF F([marked |-> FALSE, doomed |-> TRUE])  = c THEN wclass[[marked |-> FALSE, doomed |-> TRUE]]  ELSE 0)
      + (IF F([marked |-> FALSE, doomed |-> FALSE]) = c THEN wclass[[marked |-> FALSE, doomed |-> FALSE]] ELSE 0)]

Mark(c)   == [c EXCEPT !.marked = TRUE]
Unmark(c) == [c EXCEPT !.marked = FALSE]
Doom(c)   == [c EXCEPT !.marked = IF tphase = "on" THEN FALSE ELSE @, !.doomed = TRUE]

\* a key handled by the Log view: `a` toggles, q/Left/Right navigate away
HistOnLogKey(key) ==
    CASE rec /\ key.code = "a" ->
            IF ~auto_refresh
            THEN /\ tphase' = "on"
                 /\ wclass' = Reclass(Mark)
                 /\ UNCHANGED rec
            ELSE /\ tphase' = IF tphase = "on" THEN "onoff" ELSE tphase
                 /\ UNCHANGED <<rec, wclass>>
      [] rec /\ key.code \in {"q", "Left", "Right"} ->
            /\ tphase' = IF tphase = "on" THEN "idle" ELSE tphase
            /\ wclass' = Reclass(Doom)
            /\ UNCHANGED rec
      [] OTHER -> UNCHANGED histVars

\* start_auto_refresh set the flag and spawned a thread
HistOnStart ==
    IF rec
    THEN /\ tphase' = "idle"
         /\ wclass' = [Reclass(Unmark) EXCEPT ![Fresh] = @ + 1]
         /\ UNCHANGED rec
    ELSE UNCHANGED histVars

\* a periodic thread of class c woke
HistOnWake(c) ==
    IF rec
    THEN /\ wclass' = IF pw' < pw
                      THEN [wclass EXCEPT ![c] = @ - 1]
                      ELSE [[wclass EXCEPT ![c] = @ - 1] EXCEPT ![Fresh] = @ + 1]
         /\ UNCHANGED <<rec, tphase>>
    ELSE UNCHANGED histVars

\* a periodic thread of class c is asleep
Asleep(c) == pw > 0 /\ IF rec THEN wclass[c] > 0 ELSE c = Fresh

----------------------------------------------------------------------------
(* The components that are not among the sources, from the specification *)

\* TableServices::get_selected_service
get_selected_service ==
    IF selected_index < Len(filtered) THEN Some(filtered[selected_index + 1]) ELSE None

\* TableServices::on_key_event: arrows move the selection within [0, n-1],
\* Enter and Right ask for the Details view; suppressed while the Filter has focus
TableServices_on_key_event(key, q) ==
    IF ignore_key_events
    THEN <<selected_index, q>>
    ELSE CASE key.code = "Up" -> <<SaturatingSub(selected_index, 1), q>>
           [] key.code = "Down" ->
                <<IF selected_index + 1 < Len(filtered) THEN selected_index + 1 ELSE selected_index, q>>
           [] key.code \in {"Enter", "Right"} -> <<selected_index, Append(q, Act("GoDetails"))>>
           [] OTHER -> <<selected_index, q>>

\* Filter::on_key_event: a keystroke that changes the buffer emits Filter(text);
\* gaining and losing focus emit UpdateIgnoreListKeys
Filter_on_key_event(key, q) ==
    IF key.code = "x"
    THEN {Append(q, FilterEv(t)) : t \in FilterTexts}
            \cup {Append(q, IgnoreEv(~ignore_key_events))}
    ELSE {q}

\* TableServices::refresh: the backend's list narrowed by the filter text
Narrow(input) == IF input = "" THEN units ELSE <<>>

\* ServiceDetails::on_key_event: q asks for the List view, Left and Right for
\* the Log view
ServiceDetails_on_key_event(key, q) ==
    CASE key.code = "q" -> Append(q, Act("GoList"))
      [] key.code \in {"Left", "Right"} -> Append(q, Act("GoLog"))
      [] OTHER -> q

----------------------------------------------------------------------------
(* App *)

\* App::new and App::init. TableServices::new queries the backend for the
\* list (u): it holds the list, or it failed and has posted an Error
InitWith(u) ==
    /\ running = TRUE
    /\ status = "List"
    /\ pc = "recv"
    /\ units = u
    /\ \/ /\ filtered = u
          /\ queue = <<>>
       \/ /\ filtered = <<>>
          /\ \E m \in ErrorMsgs : queue = <<ErrorEv(m)>>
    /\ scroll = 0
    /\ log_paragraph = None
    /\ log_block = None
    /\ border_color = "White"
    /\ service_name = ""
    /\ auto_refresh = FALSE
    /\ poisoned = FALSE
    /\ pw = 0
    /\ fetches = [s \in Services |-> 0]
    /\ poller = "running"
    /\ panicked = {}
    /\ selected_index = 0
    /\ ignore_key_events = FALSE
    /\ details_fetches = 0
    /\ tphase = "idle"
    /\ wclass = [c \in Class |-> 0]

\* the backend lists one service
Init0 == InitWith(<<AllServices[1]>>)

Init == Init0 /\ rec = FALSE

\* the backend lists both services
InitSel == InitWith(AllServices) /\ rec = FALSE

InitHist == Init0 /\ rec = TRUE

\* the process is alive: a panic of the main thread ends it
ProcessAlive == pc # "panicked"

\* the Receiver is alive: it is dropped when run returns
ReceiverAlive == pc \in {"recv", "modal"}

\* App::run: `while self.running` holds and recv returns the head of the channel
Recv(kind) ==
    /\ pc = "recv"
    /\ running
    /\ queue # <<>>
    /\ Head(queue).kind = kind

\* quit, were it to leave running as it is
quit_noop == UNCHANGED running

\* App::quit
quit == running' = FALSE

\* App::on_key_event
IsCtrlC(key) == key.mods = "CONTROL" /\ key.code \in {"c", "C"}

on_key_event(key) == IF IsCtrlC(key) THEN quit ELSE UNCHANGED running

\* spawn_key_event_listener: the thread reads one terminal event
PollerRead(ev) ==
    /\ ProcessAlive
    /\ poller = "running"
    /\ IF ev.kind = "Press"
       THEN IF ReceiverAlive
            THEN /\ Len(queue) < MaxQueue
                 /\ queue' = Append(queue, KeyEv(ev.key))
                 /\ UNCHANGED poller
            ELSE /\ poller' = "ended"
                 /\ UNCHANGED queue
       ELSE UNCHANGED <<queue, poller>>
    /\ UNCHANGED <<appVars, logVars, listVars, detailsVars, histVars,
                   pw, fetches, panicked, poisoned>>

\* App::run, AppEvent::Key in Status::Log
HandleKeyLog ==
    /\ Recv("Key")
    /\ status = "Log"
    /\ LET key == Head(queue).key
       IN  /\ on_key_event(key)
           /\ \E o \in ScrollOutcomes(key) :
                IF o.panic
                THEN /\ pc' = "panicked"
                     /\ queue' = Tail(queue)
                     /\ UNCHANGED <<logVars, histVars>>
                ELSE /\ ServiceLog_on_key_event(key, Tail(queue), o)
                     /\ HistOnLogKey(key)
                     /\ UNCHANGED pc
    /\ UNCHANGED <<status, listVars, detailsVars, threadVars>>

\* AppEvent::Key in Status::List, were the key forwarded to the Log view too
HandleKeyList_all ==
    /\ Recv("Key")
    /\ status = "List"
    /\ LET key == Head(queue).key
           t   == TableServices_on_key_event(key, Tail(queue))
       IN  /\ on_key_event(key)
           /\ selected_index' = t[1]
           /\ \E q2 \in Filter_on_key_event(key, t[2]) :
              \E o \in ScrollOutcomes(key) :
                /\ ServiceLog_on_key_event(key, q2, o)
                /\ HistOnLogKey(key)
    /\ UNCHANGED <<status, pc, units, filtered, ignore_key_events, detailsVars,
                   threadVars>>

\* App::run, AppEvent::Key in Status::List
HandleKeyList ==
    /\ Recv("Key")
    /\ status = "List"
    /\ LET key == Head(queue).key
           t   == TableServices_on_key_event(key, Tail(queue))
       IN  /\ on_key_event(key)
           /\ selected_index' = t[1]
           /\ queue' \in Filter_on_key_event(key, t[2])
    /\ UNCHANGED <<status, pc, logVars, units, filtered, ignore_key_events, detailsVars,
                   threadVars, histVars>>

\* App::run, AppEvent::Key in Status::Details
HandleKeyDetails ==
    /\ Recv("Key")
    /\ status = "Details"
    /\ LET key == Head(queue).key
       IN  /\ on_key_event(key)
           /\ queue' = ServiceDetails_on_key_event(key, Tail(queue))
    /\ UNCHANGED <<status, pc, logVars, listVars, detailsVars, threadVars, histVars>>

\* App::run, Actions::UpdateIgnoreListKeys
HandleUpdateIgnoreListKeys ==
    /\ Recv("UpdateIgnoreListKeys")
    /\ ignore_key_events' = Head(queue).flag
    /\ queue' = Tail(queue)
    /\ UNCHANGED <<appVars, logVars, units, filtered, selected_index, detailsVars,
                   threadVars, histVars>>

\* App::run, Actions::Filter; a failed backend list query posts an Error
HandleFilter ==
    /\ Recv("Filter")
    /\ selected_index' = 0
    /\ \/ /\ filtered' = Narrow(Head(queue).input)
          /\ queue' = Tail(queue)
       \/ /\ \E m \in ErrorMsgs : queue' = Append(Tail(queue), ErrorEv(m))
          /\ UNCHANGED filtered
    /\ UNCHANGED <<appVars, logVars, units, ignore_key_events, detailsVars,
                   threadVars, histVars>>

\* Actions::Updatelog, were it taken off the channel and dropped
HandleUpdatelog_drop ==
    /\ Recv("Updatelog")
    /\ queue' = Tail(queue)
    /\ UNCHANGED <<appVars, logVars, listVars, detailsVars, threadVars, histVars>>

\* App::run, Actions::Updatelog
HandleUpdatelog ==
    /\ Recv("Updatelog")
    /\ update(Head(queue).name, Head(queue).log)
    /\ queue' = Tail(queue)
    /\ UNCHANGED <<appVars, scroll, border_color, auto_refresh, listVars,
                   detailsVars, threadVars, histVars>>

\* Actions::RefreshLog, were it handled without the check of the active view
HandleRefreshLog_any ==
    /\ Recv("RefreshLog")
    /\ queue' = Tail(queue)
    /\ IF get_selected_service.some
       THEN /\ NumFetches < MaxFetch
            /\ fetch_log_and_dispatch(get_selected_service.val)
       ELSE UNCHANGED fetches
    /\ UNCHANGED <<appVars, logVars, listVars, detailsVars, pw, poller, panicked,
                   poisoned, histVars>>

\* App::run, Actions::RefreshLog
HandleRefreshLog ==
    /\ Recv("RefreshLog")
    /\ queue' = Tail(queue)
    /\ IF status = "Log" /\ get_selected_service.some
       THEN /\ NumFetches < MaxFetch
            /\ fetch_log_and_dispatch(get_selected_service.val)
       ELSE UNCHANGED fetches
    /\ UNCHANGED <<appVars, logVars, listVars, detailsVars, pw, poller, panicked,
                   poisoned, histVars>>

\* App::run, Actions::GoLog
HandleGoLog ==
    /\ Recv("GoLog")
    /\ pw < MaxWorkers
    /\ status' = "Log"
    /\ queue' = Append(Tail(queue), Act("RefreshLog"))
    /\ start_auto_refresh
    /\ HistOnStart
    /\ UNCHANGED <<running, pc, scroll, log_paragraph, service_name, listVars,
                   detailsVars, fetches, poller, panicked, poisoned>>

\* Actions::GoList, were it handled like Actions::UpdateDetails
HandleGoList_noop ==
    /\ Recv("GoList")
    /\ queue' = Tail(queue)
    /\ UNCHANGED <<appVars, logVars, listVars, detailsVars, threadVars, histVars>>

\* App::run, Actions::GoList
HandleGoList ==
    /\ Recv("GoList")
    /\ status' = "List"
    /\ queue' = Tail(queue)
    /\ UNCHANGED <<running, pc, logVars, listVars, detailsVars, threadVars, histVars>>

\* App::run, Actions::UpdateDetails
HandleUpdateDetails ==
    /\ Recv("UpdateDetails")
    /\ queue' = Tail(queue)
    /\ UNCHANGED <<appVars, logVars, listVars, detailsVars, threadVars, histVars>>

\* App::run, Actions::RefreshDetails
HandleRefreshDetails ==
    /\ Recv("RefreshDetails")
    /\ queue' = Tail(queue)
    /\ IF status = "Details"
       THEN /\ details_fetches < MaxFetch
            /\ details_fetches' = details_fetches + 1
       ELSE UNCHANGED details_fetches
    /\ UNCHANGED <<appVars, logVars, listVars, threadVars, histVars>>

\* App::run, Actions::GoDetails
HandleGoDetails ==
    /\ Recv("GoDetails")
    /\ queue' = Append(Tail(queue), Act("RefreshDetails"))
    /\ status' = "Details"
    /\ UNCHANGED <<running, pc, logVars, listVars, detailsVars, threadVars, histVars>>

\* AppEvent::Error, were the modal to fall back to the List view
HandleError_toList ==
    /\ Recv("Error")
    /\ pc' = "modal"
    /\ status' = "List"
    /\ queue' = Tail(queue)
    /\ UNCHANGED <<running, logVars, listVars, detailsVars, threadVars, histVars>>

\* App::run, AppEvent::Error: the modal is drawn
HandleError ==
    /\ Recv("Error")
    /\ pc' = "modal"
    /\ queue' = Tail(queue)
    /\ UNCHANGED <<running, status, logVars, listVars, detailsVars, threadVars, histVars>>

\* App::run, AppEvent::Error: event::read returns and the loop resumes
ModalRead ==
    /\ pc = "modal"
    /\ pc' = "recv"
    /\ UNCHANGED <<running, status, queue, logVars, listVars, detailsVars,
                   threadVars, histVars>>

\* App::run: `while self.running` fails, run returns and the Receiver is dropped
LoopExit ==
    /\ pc = "recv"
    /\ ~running
    /\ pc' = "done"
    /\ UNCHANGED <<running, status, queue, logVars, listVars, detailsVars,
                   threadVars, histVars>>

----------------------------------------------------------------------------
(* The worker threads *)

\* auto_refresh_thread, were it to send before it looks at the flag
PeriodicWake_sendfirst(c) ==
    /\ ProcessAlive
    /\ Asleep(c)
    /\ ReceiverAlive
    /\ Len(queue) < MaxQueue
    /\ queue' = Append(queue, Act("RefreshLog"))
    /\ pw' = IF auto_refresh THEN pw ELSE pw - 1
    /\ HistOnWake(c)
    /\ UNCHANGED <<appVars, logVars, listVars, detailsVars, fetches, poller,
                   panicked, poisoned>>

\* ServiceLog::auto_refresh_thread: a thread (of class c) wakes from its sleep
PeriodicWake(c) ==
    /\ ProcessAlive
    /\ Asleep(c)
    /\ IF poisoned
       THEN UNCHANGED <<queue, pw, panicked, poisoned>>
       ELSE IF auto_refresh
            THEN IF ReceiverAlive
                 THEN /\ Len(queue) < MaxQueue
                      /\ queue' = Append(queue, Act("RefreshLog"))
                      /\ UNCHANGED <<pw, panicked, poisoned>>
                 ELSE /\ pw' = pw - 1
                      /\ panicked' = panicked \cup {"periodic"}
                      /\ poisoned' = TRUE
                      /\ UNCHANGED queue
            ELSE /\ pw' = pw - 1
                 /\ UNCHANGED <<queue, panicked, poisoned>>
    /\ HistOnWake(c)
    /\ UNCHANGED <<appVars, logVars, listVars, detailsVars, fetches, poller>>

\* the fetch thread, were it to report a failed backend call with an Error
FetchDone_report(s) ==
    /\ ProcessAlive
    /\ fetches[s] > 0
    /\ ReceiverAlive
    /\ Len(queue) < MaxQueue
    /\ fetches' = [fetches EXCEPT ![s] = @ - 1]
    /\ \/ \E log \in BackendLogs : queue' = Append(queue, UpdatelogEv(s, log))
       \/ \E m \in ErrorMsgs : queue' = Append(queue, ErrorEv(m))
    /\ UNCHANGED <<appVars, logVars, listVars, detailsVars, pw, poller, poisoned,
                   panicked, histVars>>

\* ServiceLog::fetch_log_and_dispatch: the thread's backend call returns
FetchDone(s) ==
    /\ ProcessAlive
    /\ fetches[s] > 0
    /\ fetches' = [fetches EXCEPT ![s] = @ - 1]
    /\ \/ \E log \in BackendLogs :
            IF ReceiverAlive
            THEN /\ Len(queue) < MaxQueue
                 /\ queue' = Append(queue, UpdatelogEv(s, log))
                 /\ UNCHANGED panicked
            ELSE /\ panicked' = panicked \cup {"fetch"}
                 /\ UNCHANGED queue
       \/ UNCHANGED <<queue, panicked>>
    /\ UNCHANGED <<appVars, logVars, listVars, detailsVars, pw, poller, poisoned, histVars>>

\* ServiceDetails::fetch_log_and_dispatch: the thread's backend call returns
DetailsFetchDone ==
    /\ ProcessAlive
    /\ details_fetches > 0
    /\ details_fetches' = details_fetches - 1
    /\ \/ /\ ReceiverAlive
          /\ Len(queue) < MaxQueue
          /\ queue' = Append(queue, Act("UpdateDetails"))
       \/ UNCHANGED queue
    /\ UNCHANGED <<appVars, logVars, listVars, threadVars, histVars>>

----------------------------------------------------------------------------
(* Specifications *)

\* the terminal events read for a set of key presses
TermEvents(keys) ==
    {[kind |-> "Press", key |-> k] : k \in keys}
        \cup {[kind |-> "Release", key |-> Key("a", "NONE")]}

\* the Down presses enumerated keep the scroll offset within MaxScroll
DownAllowed(ev) ==
    (ev.kind = "Press" /\ ev.key.code = "Down")
        => scroll + NumDown(queue) < MaxScroll

\* the threads beside the controller, while the Receiver is alive
Threads ==
    \/ \E c \in Class : ReceiverAlive /\ PeriodicWake(c)
    \/ \E s \in Services : ReceiverAlive /\ FetchDone(s)
    \/ ReceiverAlive /\ DetailsFetchDone

\* a user in the Log view and on the way to it, pressing keys ahead of the
\* controller
Next ==
    \/ \E ev \in TermEvents(PollKeys(status)) :
            ReceiverAlive /\ DownAllowed(ev) /\ PollerRead(ev)
    \/ HandleKeyLog
    \/ HandleKeyList
    \/ HandleKeyDetails
    \/ HandleUpdatelog
    \/ HandleRefreshLog
    \/ HandleGoLog
    \/ HandleGoList
    \/ HandleUpdateDetails
    \/ HandleRefreshDetails
    \/ HandleGoDetails
    \/ HandleError
    \/ ModalRead
    \/ Threads

Spec == Init /\ [][Next]_vars

\* a user navigating and quitting
NextQuit ==
    \/ \E ev \in TermEvents(QuitKeys(status)) :
            ReceiverAlive /\ DownAllowed(ev) /\ PollerRead(ev)
    \/ HandleKeyLog
    \/ HandleKeyList
    \/ HandleKeyDetails
    \/ HandleUpdatelog
    \/ HandleRefreshLog
    \/ HandleGoLog
    \/ HandleGoList
    \/ HandleUpdateDetails
    \/ HandleRefreshDetails
    \/ HandleGoDetails
    \/ HandleError
    \/ ModalRead
    \/ LoopExit
    \/ Threads

SpecQuit == Init /\ [][NextQuit]_vars

\* a user touring the views and typing into the filter
NextFilter ==
    \/ \E ev \in TermEvents(FilterKeys(status)) :
            ReceiverAlive /\ DownAllowed(ev) /\ PollerRead(ev)
    \/ HandleKeyLog
    \/ HandleKeyList
    \/ HandleKeyDetails
    \/ HandleUpdateIgnoreListKeys
    \/ HandleFilter
    \/ HandleUpdatelog
    \/ HandleRefreshLog
    \/ HandleGoLog
    \/ HandleGoList
    \/ HandleUpdateDetails
    \/ HandleRefreshDetails
    \/ HandleGoDetails
    \/ HandleError
    \/ ModalRead
    \/ Threads

SpecFilter == Init /\ [][NextFilter]_vars

\* the toggle key of the Log view and the way to it, with the history of the
\* periodic threads recorded
NextHist ==
    \/ \E ev \in TermEvents(HistKeys(status)) :
            ReceiverAlive /\ DownAllowed(ev) /\ PollerRead(ev)
    \/ HandleKeyLog
    \/ HandleKeyList
    \/ HandleKeyDetails
    \/ HandleUpdatelog
    \/ HandleRefreshLog
    \/ HandleGoLog
    \/ HandleGoList
    \/ HandleUpdateDetails
    \/ HandleRefreshDetails
    \/ HandleGoDetails
    \/ HandleError
    \/ ModalRead
    \/ Threads

SpecHist == InitHist /\ [][NextHist]_vars

\* a user navigating and quitting, and the threads that outlive the loop:
\* they run on after the Receiver is dropped, until the process exits
NextExit ==
    \/ \E ev \in TermEvents(QuitKeys(status)) : DownAllowed(ev) /\ PollerRead(ev)
    \/ HandleKeyLog
    \/ HandleKeyList
    \/ HandleKeyDetails
    \/ HandleUpdatelog
    \/ HandleRefreshLog
    \/ HandleGoLog
    \/ HandleGoList
    \/ HandleUpdateDetails
    \/ HandleRefreshDetails
    \/ HandleGoDetails
    \/ HandleError
    \/ ModalRead
    \/ LoopExit
    \/ \E c \in Class : PeriodicWake(c)
    \/ \E s \in Services : FetchDone(s)
    \/ DetailsFetchDone

SpecExit == Init /\ [][NextExit]_vars

\* a user pressing each kind of key of the Log view
NextNav ==
    \/ \E ev \in TermEvents(NavKeys(status)) :
            ReceiverAlive /\ DownAllowed(ev) /\ PollerRead(ev)
    \/ HandleKeyLog
    \/ HandleKeyList
    \/ HandleKeyDetails
    \/ HandleUpdatelog
    \/ HandleRefreshLog
    \/ HandleGoLog
    \/ HandleGoList
    \/ HandleUpdateDetails
    \/ HandleRefreshDetails
    \/ HandleGoDetails
    \/ HandleError
    \/ ModalRead
    \/ Threads

SpecNav == Init /\ [][NextNav]_vars

\* the backend call of a fetch thread succeeds
FetchOk(s) == FetchDone(s) /\ queue' # queue

\* one iteration of the loop of App::run
Controller ==
    \/ HandleKeyLog
    \/ HandleKeyList
    \/ HandleKeyDetails
    \/ HandleUpdateIgnoreListKeys
    \/ HandleFilter
    \/ HandleUpdatelog
    \/ HandleRefreshLog
    \/ HandleGoLog
    \/ HandleGoList
    \/ HandleUpdateDetails
    \/ HandleRefreshDetails
    \/ HandleGoDetails
    \/ HandleError

\* a user who enters the Log view and stays there, toggling auto-refresh, and
\* who presses a key when the channel is empty
NextLive ==
    \/ \E ev \in TermEvents(LiveKeys(status)) :
            ReceiverAlive /\ queue = <<>> /\ PollerRead(ev)
    \/ HandleKeyLog
    \/ HandleKeyList
    \/ HandleKeyDetails
    \/ HandleUpdatelog
    \/ HandleRefreshLog
    \/ HandleGoLog
    \/ HandleUpdateDetails
    \/ HandleRefreshDetails
    \/ HandleGoDetails
    \/ HandleError
    \/ ModalRead
    \/ Threads

\* the loop handles what is in the channel, every thread runs on, and a backend
\* call made again and again does not fail every time; the user owes no key
SpecLive ==
    /\ Init
    /\ [][NextLive]_vars
    /\ WF_vars(Controller)
    /\ WF_vars(\E c \in Class : ReceiverAlive /\ PeriodicWake(c))
    /\ WF_vars(\E s \in Services : ReceiverAlive /\ FetchDone(s))
    /\ WF_vars(ReceiverAlive /\ DetailsFetchDone)
    /\ SF_vars(\E s \in Services : ReceiverAlive /\ FetchOk(s))

\* a user selecting a service in the List, visiting its log and coming back
NextSel ==
    \/ \E ev \in TermEvents(SelKeys(status)) :
            ReceiverAlive /\ DownAllowed(ev) /\ PollerRead(ev)
    \/ HandleKeyLog
    \/ HandleKeyList
    \/ HandleKeyDetails
    \/ HandleUpdatelog
    \/ HandleRefreshLog
    \/ HandleGoLog
    \/ HandleGoList
    \/ HandleUpdateDetails
    \/ HandleRefreshDetails
    \/ HandleGoDetails
    \/ HandleError
    \/ ModalRead
    \/ Threads

SpecSel == InitSel /\ [][NextSel]_vars

\* SpecScroll starts in the Log view with the log shown, auto-refresh toggled
\* off and its thread ended, at a scroll offset near 0 or near u16::MAX
InitScroll ==
    /\ running = TRUE
    /\ status = "Log"
    /\ pc = "recv"
    /\ queue = <<>>
    /\ units = <<AllServices[1]>>
    /\ filtered = <<AllServices[1]>>
    /\ scroll \in (0..ScrollSpan) \cup ((U16Max - ScrollSpan)..U16Max)
    /\ log_paragraph = Some(reversed_log(<<"a", "NL", "b">>))
    /\ log_block = MakeBlock(AllServices[1], "White")
    /\ border_color = "White"
    /\ service_name = AllServices[1]
    /\ auto_refresh = FALSE
    /\ poisoned = FALSE
    /\ pw = 0
    /\ fetches = [s \in Services |-> 0]
    /\ poller = "running"
    /\ panicked = {}
    /\ selected_index = 0
    /\ ignore_key_events = FALSE
    /\ details_fetches = 0
    /\ rec = FALSE
    /\ tphase = "idle"
    /\ wclass = [c \in Class |-> 0]

\* the scroll offset stays within ScrollSpan of 0 or of u16::MAX
InSpan(key) ==
    \A o \in ScrollOutcomes(key) :
        LET t == CASE key.code = "Up" -> SaturatingSub(scroll, 1)
                   [] key.code = "PageUp" -> SaturatingSub(scroll, PageStep)
                   [] OTHER -> o.scroll
        IN  t <= ScrollSpan \/ t >= U16Max - ScrollSpan

\* a user scrolling the Log view, one key at a time
NextScroll ==
    \/ \E ev \in TermEvents(ScrollKeys) :
            queue = <<>> /\ InSpan(ev.key) /\ PollerRead(ev)
    \/ HandleKeyLog

SpecScroll == InitScroll /\ [][NextScroll]_vars

\* the characters of a backend text: two letters, line feed, carriage return
TextChars == {"a", "b", "NL", "CR"}

\* the example of a three-line log and its reversal
ExampleLog == <<"a", "NL", "b", "NL", "c">>
ExampleReversed == <<"c", "NL", "b", "NL", "a">>

\* the texts ServicesManager::get_log returns in SpecRev
RevTexts ==
    UNION {[1..k -> TextChars] : k \in 0..MaxTextLen} \cup {ExampleLog}

\* SpecRev starts in the Log view, auto-refresh toggled off and its thread
\* ended, with the Updatelog of a fetch in the channel
InitRev ==
    /\ running = TRUE
    /\ status = "Log"
    /\ pc = "recv"
    /\ \E t \in RevTexts : queue = <<UpdatelogEv(AllServices[1], t)>>
    /\ units = <<AllServices[1]>>
    /\ filtered = <<AllServices[1]>>
    /\ scroll = 0
    /\ log_paragraph = None
    /\ log_block = MakeBlock("", "White")
    /\ border_color = "White"
    /\ service_name = ""
    /\ auto_refresh = FALSE
    /\ poisoned = FALSE
    /\ pw = 0
    /\ fetches = [s \in Services |-> 0]
    /\ poller = "running"
    /\ panicked = {}
    /\ selected_index = 0
    /\ ignore_key_events = FALSE
    /\ details_fetches = 0
    /\ rec = FALSE
    /\ tphase = "idle"
    /\ wclass = [c \in Class |-> 0]

\* a later fetch whose backend call returns the text the Log view displays
FeedDisplayed ==
    /\ pc = "recv"
    /\ queue = <<>>
    /\ log_paragraph.some
    /\ queue' = <<UpdatelogEv(service_name, log_paragraph.val)>>
    /\ UNCHANGED <<appVars, logVars, listVars, detailsVars, threadVars, histVars>>

NextRev ==
    \/ HandleUpdatelog
    \/ FeedDisplayed

SpecRev == InitRev /\ [][NextRev]_vars

----------------------------------------------------------------------------
(* The claims *)

\* the controller handles a key of the Log view with this code
LogKeyStep(code) ==
    /\ Recv("Key")
    /\ status = "Log"
    /\ Head(queue).key.code = code
    /\ HandleKeyLog

\* the Log view's state and the controller's view and running flag
ViewState == <<status, running, scroll, log_paragraph, log_block, border_color,
               service_name, auto_refresh>>

\* C1: the active view is always one of List, Log, Details and starts at List;
\* dequeuing GoList, GoLog, GoDetails sets it to List, Log, Details from any
\* view; dequeuing any other event leaves it unchanged, and so does every step
\* of another thread.
C1_ViewTransitions ==
    /\ status = "List"
    /\ [](status \in Views)
    /\ [][/\ HandleGoList => status' = "List"
          /\ HandleGoLog => status' = "Log"
          /\ HandleGoDetails => status' = "Details"
          /\ (\/ HandleKeyLog \/ HandleKeyList \/ HandleKeyDetails
              \/ HandleFilter \/ HandleUpdatelog \/ HandleUpdateDetails
              \/ HandleUpdateIgnoreListKeys \/ HandleRefreshLog
              \/ HandleRefreshDetails \/ HandleError) => status' = status
          /\ status' # status => (HandleGoList \/ HandleGoLog \/ HandleGoDetails)]_vars

\* C1: the Details view is active, reached from the List, and an Error is the
\* next event to be dequeued there
C1_Witness ==
    /\ status = "Details"
    /\ pc = "recv"
    /\ queue # <<>>
    /\ Head(queue).kind = "Error"

\* C2: whenever the active view is List or Details, the Log auto-refresh flag
\* is false.
C2_FlagOnlyInLog == status # "Log" => ~auto_refresh

C4_FetchOnlyInLog ==
    [][/\ (\E s \in Services : fetches'[s] > fetches[s])
            => (HandleRefreshLog /\ status = "Log" /\ get_selected_service.some)
       /\ (HandleRefreshLog /\ status # "Log")
            => /\ queue' = Tail(queue)
               /\ UNCHANGED <<appVars, logVars, listVars, detailsVars, threadVars,
                              histVars>>]_vars

\* C4: a RefreshLog is about to be dequeued outside the Log view while a
\* periodic thread is still alive
C4_Witness ==
    /\ status # "Log"
    /\ pc = "recv"
    /\ queue # <<>>
    /\ Head(queue).kind = "RefreshLog"
    /\ get_selected_service.some
    /\ pw > 0

\* C5: dequeuing an Error and waiting in the modal leave the active view, the
\* running flag and the Log view's state as they are, and the dismissal
\* resumes the loop.
C5_ErrorKeepsState ==
    [][/\ (HandleError \/ pc = "modal") => UNCHANGED ViewState
       /\ HandleError => pc' = "modal"
       /\ pc = "modal" => pc' \in {"modal", "recv"}]_vars

\* C5: the modal is up over the Details view
C5_Witness ==
    /\ pc = "modal"
    /\ status = "Details"

\* C6: a dequeued Ctrl+C sets running to false in every view, and once running
\* is false nothing is dequeued: the channel only grows and the views' state
\* stays.
C6_CtrlCEndsLoop ==
    [][/\ (/\ Recv("Key")
           /\ IsCtrlC(Head(queue).key)
           /\ (HandleKeyLog \/ HandleKeyList \/ HandleKeyDetails)) => ~running'
       /\ ~running => /\ ~running'
                      /\ Len(queue') >= Len(queue)
                      /\ SubSeq(queue', 1, Len(queue)) = queue
                      /\ UNCHANGED <<status, logVars, listVars>>]_vars

\* C6: the loop has ended by a Ctrl+C in the Log view with an event left in the
\* channel
C6_Witness ==
    /\ ~running
    /\ pc = "done"
    /\ status = "Log"
    /\ queue # <<>>

\* C7: in the step where the Log view becomes active its scroll offset is 0 and
\* it holds no log text.
C7_FreshOnEntry ==
    [][(status # "Log" /\ status' = "Log")
            => (scroll' = 0 /\ ~log_paragraph'.some)]_vars

\* C8: a periodic thread that slept through a toggle on and then a toggle off
\* ends at its wake and sends nothing.
C8_OnOffSilent ==
    [][\A c \in Class :
            (c.marked /\ tphase = "onoff" /\ PeriodicWake(c))
                => (pw' = pw - 1 /\ queue' = queue)]_vars

\* C8: a periodic thread is asleep, the flag toggled on and off since it slept
C8_Witness ==
    /\ tphase = "onoff"
    /\ \E c \in Class : c.marked /\ wclass[c] > 0
    /\ status = "Log"

\* C9: a periodic thread that was alive at a navigation away from the Log view
\* ends at its next wake.
C9_DoomedEnds ==
    [][\A c \in Class : (c.doomed /\ PeriodicWake(c)) => pw' = pw - 1]_vars

\* C10: the scroll offset is never below 0; Up subtracts 1 and PageUp 10, both
\* saturating at 0; Down adds 1 and PageDown adds 10.
C10_ScrollSteps ==
    /\ [](scroll >= 0)
    /\ [][/\ LogKeyStep("Up") => scroll' = (IF scroll >= 1 THEN scroll - 1 ELSE 0)
          /\ LogKeyStep("PageUp") => scroll' = (IF scroll >= 10 THEN scroll - 10 ELSE 0)
          /\ LogKeyStep("Down") => scroll' = scroll + 1
          /\ LogKeyStep("PageDown") => scroll' = scroll + 10]_vars

\* the Updatelog at the head of the channel carries the text on display
FedDisplayed ==
    /\ log_paragraph.some
    /\ Recv("Updatelog")
    /\ Head(queue).log = log_paragraph.val
    /\ HandleUpdatelog

\* a text without carriage return that neither begins nor ends with a line feed
Plain(t) ==
    /\ \A i \in 1..Len(t) : t[i] # "CR"
    /\ t # <<>> => (t[1] # "NL" /\ t[Len(t)] # "NL")

\* what update displays is the lines of its input, last line first
DisplaysReversed ==
    [][HandleUpdatelog =>
          LET ls == Lines(Head(queue).log)
              out == log_paragraph'.val
          IN  /\ out = JoinNL([i \in 1..Len(ls) |-> ls[Len(ls) + 1 - i]])
              /\ Head(queue).log = ExampleLog => out = ExampleReversed]_vars

\* C11, as claimed: update displays its input's lines in reverse order
\* ("a\nb\nc" gives "c\nb\na"), and for every text, update fed the reversal of
\* the text displays the text itself.
C11_ReverseTwiceAll ==
    /\ DisplaysReversed
    /\ [][FedDisplayed =>
            \A t \in RevTexts :
                reversed_log(t) = log_paragraph.val => log_paragraph'.val = t]_vars

\* C11, amended: update displays its input's lines in reverse order ("a\nb\nc"
\* gives "c\nb\na"), and for every text without carriage return that neither
\* begins nor ends with a line feed, update fed the reversal of the text
\* displays the text itself.
C11_ReverseTwicePlain ==
    /\ DisplaysReversed
    /\ [][FedDisplayed =>
            \A t \in RevTexts :
                (Plain(t) /\ reversed_log(t) = log_paragraph.val)
                    => log_paragraph'.val = t]_vars

\* C11: the reversal of a two-line text is on display and is fed to update
C11_Witness ==
    /\ log_paragraph.some
    /\ log_paragraph.val = <<"b", "NL", "a">>
    /\ queue = <<UpdatelogEv(service_name, <<"b", "NL", "a">>)>>

\* C12: a fetch thread ends at the return of its one backend call; it has then
\* posted either one Updatelog with the name of the service it was spawned for
\* and a text of the backend, or nothing at all, and the Log view's state is as
\* it was; an Updatelog enters the channel in no other way.
C12_FetchPostsOnce ==
    [][/\ \A s \in Services :
            FetchDone(s) =>
                /\ fetches' = [fetches EXCEPT ![s] = @ - 1]
                /\ UNCHANGED logVars
                /\ \/ queue' = queue
                   \/ \E log \in BackendLogs : queue' = Append(queue, UpdatelogEv(s, log))
       /\ (Len(queue') > Len(queue) /\ queue'[Len(queue')].kind = "Updatelog")
            => \E s \in Services : FetchDone(s)]_vars

\* C12: the fetch thread spawned for the second service has posted its
\* Updatelog and ended
C12_Witness ==
    /\ \E i \in 1..Len(queue) :
            queue[i].kind = "Updatelog" /\ queue[i].name = AllServices[2]
    /\ fetches[AllServices[2]] = 0

\* C13: no thread that sends to the channel ends in a panic: after the Receiver
\* is dropped the input poller, a periodic thread and a fetch thread that try
\* to send each end normally.
C13_SendersEndNormally == panicked = {}

\* C14: the step in which the Log view handles q, Left or Right leaves its
\* flag false, its scroll 0 and its text cleared and appends one action to the
\* channel, GoList for q and GoDetails for Left and Right; the step in which
\* it handles any other key appends nothing.
C14_LeaveResets ==
    [][HandleKeyLog =>
          LET k == Head(queue).key.code
          IN  /\ k \in {"q", "Left", "Right"} =>
                    /\ ~auto_refresh'
                    /\ scroll' = 0
                    /\ ~log_paragraph'.some
                    /\ queue' = Append(Tail(queue),
                                       Act(IF k = "q" THEN "GoList" ELSE "GoDetails"))
              /\ k \notin {"q", "Left", "Right"} => queue' = Tail(queue)]_vars

\* C14: the Log view, which had a text, has handled Left or Right: the text is
\* cleared, the flag false and GoDetails the one event in the channel
C14_Witness ==
    /\ status = "Log"
    /\ queue = <<Act("GoDetails")>>
    /\ service_name # ""
    /\ ~log_paragraph.some
    /\ ~auto_refresh
    /\ scroll = 0

\* C15: whenever the Log auto-refresh flag is true a periodic thread is alive
\* (which goes on to send RefreshLog at its wake), also after an earlier thread
\* has ended at a toggle off.
C15_FlagHasThread == auto_refresh => pw > 0

\* C16: while the error modal waits for its dismissal the input poller takes
\* no key press: no Key event enters the channel, and the modal's own read is
\* what consumes the press.
C16_ModalBypassesChannel ==
    [][pc = "modal" => NumKeys(queue') = NumKeys(queue)]_vars

\* C17: a key press dequeued in one view is handled by the controller's Ctrl+C
\* check and by that view's handlers only: dequeued in the List or Details it
\* leaves the Log view's state unchanged, dequeued in the Log or Details it
\* leaves the List unchanged, and dequeued in the Log or the List it leaves
\* Details unchanged; running becomes false exactly when the key is Ctrl+C.
C17_KeyToActiveView ==
    [][/\ (HandleKeyList \/ HandleKeyDetails) => UNCHANGED logVars
       /\ (HandleKeyLog \/ HandleKeyDetails) => UNCHANGED listVars
       /\ (HandleKeyLog \/ HandleKeyList) => UNCHANGED detailsVars
       /\ (HandleKeyLog \/ HandleKeyList \/ HandleKeyDetails)
            => running' = (running /\ ~IsCtrlC(Head(queue).key))]_vars

\* C17: a Down pressed in the Log view is about to be dequeued in the List
C17_Witness ==
    /\ status = "List"
    /\ pc = "recv"
    /\ queue # <<>>
    /\ Head(queue).kind = "Key"
    /\ Head(queue).key.code = "Down"

\* no fetch is in flight, nothing of a fetch is in the channel and no periodic
\* thread is going to send
FetchIdle ==
    /\ NumFetches = 0
    /\ \A i \in 1..Len(queue) : queue[i].kind \notin {"RefreshLog", "Updatelog"}
    /\ ~auto_refresh \/ pw = 0

\* C18: once the Log view is active with a service selected, the loading
\* placeholder goes away (an Updatelog has been applied) unless the view is
\* left or the fetches have failed and none is pending; and in the Log view
\* with the placeholder, auto-refresh off, no fetch in flight and the channel
\* empty, every step keeps the placeholder and starts no fetch.
C18_LogEventuallyShown ==
    /\ (status = "Log" /\ get_selected_service.some)
            ~> (~ShowsLoading \/ status # "Log" \/ FetchIdle)
    /\ [][(/\ status = "Log"
           /\ ShowsLoading
           /\ ~auto_refresh
           /\ NumFetches = 0
           /\ queue = <<>>)
            => /\ ShowsLoading'
               /\ NumFetches' = 0
               /\ \A i \in 1..Len(queue') : queue'[i].kind # "RefreshLog"]_vars

\* C18: the Log view shows the text of the selected service
C18_Witness ==
    /\ status = "Log"
    /\ ~ShowsLoading
    /\ get_selected_service.some
    /\ service_name = get_selected_service.val

\* C19: at most one periodic Log refresh thread is alive at any time.
C19_OnePeriodicThread == pw <= 1

\* C20: whenever the Log view is active and displays a text, the service name
\* displayed with it is the name of the service selected in the List.
C20_NameIsSelected ==
    (status = "Log" /\ ~ShowsLoading)
        => (get_selected_service.some /\ service_name = get_selected_service.val)

\* C21: the scroll offset never overflows its 16 bits: it stays within
\* 0..65535, and a Down or PageDown handled in the Log view neither panics nor
\* wraps to a smaller value.
C21_ScrollNoOverflow ==
    /\ [](scroll \in 0..U16Max)
    /\ [](pc # "panicked")
    /\ [][(LogKeyStep("Down") \/ LogKeyStep("PageDown")) => scroll' > scroll]_vars

============================================================================
